---- MODULE Spec2Model ----
(***************************************************************************)
(* Model of element-crafter's HtmlBuilder (src/src/htmlBuilder.ts).        *)
(*                                                                         *)
(* JavaScript strings are sequences of one-character strings, so that      *)
(* escaping, substring search, case folding and concatenation are computed *)
(* character by character as the code computes them.  A JavaScript value   *)
(* is a record [t, s, items]: t is its typeof-like kind, s its String()    *)
(* form, items the elements of an array.                                   *)
(***************************************************************************)
EXTENDS Integers, Sequences, FiniteSets, TLC

VARIABLES config, held, call, out, built

vars == <<config, held, call, out, built>>

-----------------------------------------------------------------------------
(* Bounds of the explored inputs.                                          *)

MaxChildren == 2

MaxAttrs == 2

MaxHeldLen == 12
(* longest enumerated argument of escapeHtml *)
MaxTextLen == 2

-----------------------------------------------------------------------------
(* String literals.                                                        *)

S_div == <<"d", "i", "v">>
S_script == <<"s", "c", "r", "i", "p", "t">>
S_pre == <<"p", "r", "e">>
S_img == <<"i", "m", "g">>
S_IMG == <<"I", "M", "G">>
S_b == <<"b">>
S_class == <<"c", "l", "a", "s", "s">>
S_src == <<"s", "r", "c">>
S_srcdoc == <<"s", "r", "c", "d", "o", "c">>
S_SrcDoc == <<"S", "r", "c", "D", "o", "c">>
S_formaction == <<"f", "o", "r", "m", "a", "c", "t", "i", "o", "n">>
S_checked == <<"c", "h", "e", "c", "k", "e", "d">>
S_onclick == <<"o", "n", "c", "l", "i", "c", "k">>
S_javascript == <<"j", "a", "v", "a", "s", "c", "r", "i", "p", "t", ":">>
S_datahtml == <<"d", "a", "t", "a", ":", "t", "e", "x", "t", "/", "h", "t", "m", "l">>
S_jsalert == <<"j", "a", "v", "a", "s", "c", "r", "i", "p", "t", ":", "a", "l", "e", "r", "t", "(", "1", ")">>
S_xdatahtml == <<"x", "d", "a", "t", "a", ":", "t", "e", "x", "t", "/", "h", "t", "m", "l">>
S_xpng == <<"x", ".", "p", "n", "g">>
S_true == <<"t", "r", "u", "e">>
S_false == <<"f", "a", "l", "s", "e">>
S_ignored == <<"i", "g", "n", "o", "r", "e", "d">>
S_altb == <<"a", "<", "b">>
S_btag == <<"<", "b", ">">>
S_quoted == <<"\"", "<", ">", "'", "&">>
S_seven == <<"7">>
S_objtext == <<"<", "i", ">">>
S_xv == <<"x", "-", "v">>
S_MyTag == <<"M", "y", "T", "a", "g">>

UpperChars == <<"A", "B", "C", "D", "E", "F", "G", "H", "I", "J", "K", "L", "M",
                "N", "O", "P", "Q", "R", "S", "T", "U", "V", "W", "X", "Y", "Z">>

LowerChars == <<"a", "b", "c", "d", "e", "f", "g", "h", "i", "j", "k", "l", "m",
                "n", "o", "p", "q", "r", "s", "t", "u", "v", "w", "x", "y", "z">>

(* String.prototype.toLowerCase on the letters A-Z *)
toLowerCase(s) ==
  [i \in 1..Len(s) |->
     IF \E k \in 1..Len(UpperChars) : UpperChars[k] = s[i]
     THEN LowerChars[CHOOSE k \in 1..Len(UpperChars) : UpperChars[k] = s[i]]
     ELSE s[i]]

(* String.prototype.includes *)
includes(s, sub) ==
  \E i \in 1..(Len(s) - Len(sub) + 1) : SubSeq(s, i, i + Len(sub) - 1) = sub

(* String.prototype.replace(/c/g, rep) for a one-character pattern *)
RECURSIVE replaceAll(_, _, _)
replaceAll(s, c, rep) ==
  IF s = <<>> THEN <<>>
  ELSE (IF Head(s) = c THEN rep ELSE <<Head(s)>>) \o replaceAll(Tail(s), c, rep)

(* Array.prototype.join *)
RECURSIVE join(_, _)
join(parts, sep) ==
  IF parts = <<>> THEN <<>>
  ELSE IF Len(parts) = 1 THEN parts[1]
  ELSE parts[1] \o sep \o join(Tail(parts), sep)

-----------------------------------------------------------------------------
(* JavaScript values.                                                      *)

Str(s) == [t |-> "string", s |-> s, items |-> <<>>]
Num(s) == [t |-> "number", s |-> s, items |-> <<>>]
Bool(s) == [t |-> "boolean", s |-> s, items |-> <<>>]
Obj(s) == [t |-> "object", s |-> s, items |-> <<>>]
NodeVal(s) == [t |-> "node", s |-> s, items |-> <<>>]
Arr(items) == [t |-> "array", s |-> <<>>, items |-> items]
Null == [t |-> "null", s |-> <<>>, items |-> <<>>]
Undefined == [t |-> "undefined", s |-> <<>>, items |-> <<>>]
Func == [t |-> "function", s |-> <<>>, items |-> <<>>]
True == Bool(S_true)
False == Bool(S_false)

(* content == null *)
IsNullish(v) == v.t \in {"null", "undefined"}

(* truthiness of an option slot: only the value true is truthy *)
Truthy(flag) == flag = "true"

-----------------------------------------------------------------------------
(* HtmlBuilder statics.                                                    *)

STANDARD_VOID_TAGS ==
  { <<"a", "r", "e", "a">>, <<"b", "a", "s", "e">>, <<"b", "r">>,
    <<"c", "o", "l">>, <<"e", "m", "b", "e", "d">>, <<"h", "r">>,
    <<"i", "m", "g">>, <<"i", "n", "p", "u", "t">>, <<"l", "i", "n", "k">>,
    <<"m", "e", "t", "a">>, <<"p", "a", "r", "a", "m">>,
    <<"s", "o", "u", "r", "c", "e">>, <<"t", "r", "a", "c", "k">>,
    <<"w", "b", "r">> }

BOOLEAN_ATTRIBUTES ==
  { <<"a", "u", "t", "o", "f", "o", "c", "u", "s">>,
    <<"a", "u", "t", "o", "p", "l", "a", "y">>,
    <<"c", "h", "e", "c", "k", "e", "d">>,
    <<"c", "o", "n", "t", "r", "o", "l", "s">>,
    <<"d", "e", "f", "e", "r">>,
    <<"d", "i", "s", "a", "b", "l", "e", "d">>,
    <<"h", "i", "d", "d", "e", "n">>,
    <<"l", "o", "o", "p">>,
    <<"m", "u", "l", "t", "i", "p", "l", "e">>,
    <<"m", "u", "t", "e", "d">>,
    <<"o", "p", "e", "n">>,
    <<"r", "e", "a", "d", "o", "n", "l", "y">>,
    <<"r", "e", "q", "u", "i", "r", "e", "d">>,
    <<"r", "e", "v", "e", "r", "s", "e", "d">>,
    <<"s", "e", "l", "e", "c", "t", "e", "d">> }

(* constructor: defaults, overridden by every key the caller's object has *)
Constructor(cfg) ==
  [isSsr |-> cfg.isSsr,
   escapeContent |-> IF cfg.escapeContent = "absent" THEN "true" ELSE cfg.escapeContent,
   validateAttributes |->
     IF cfg.validateAttributes = "absent" THEN "true" ELSE cfg.validateAttributes,
   customVoidTags |-> cfg.customVoidTags]

(* get voidTags *)
voidTags(cfg) == STANDARD_VOID_TAGS \cup cfg.customVoidTags

(* faulty variant: the ampersand is replaced last *)
escapeHtml_ampersandLast(content) ==
  IF IsNullish(content) THEN <<>>
  ELSE replaceAll(
         replaceAll(
           replaceAll(
             replaceAll(
               replaceAll(content.s, "<", <<"&", "l", "t", ";">>),
               ">", <<"&", "g", "t", ";">>),
             "\"", <<"&", "q", "u", "o", "t", ";">>),
           "'", <<"&", "#", "0", "3", "9", ";">>),
         "&", <<"&", "a", "m", "p", ";">>)

(* static escapeHtml *)
escapeHtml(content) ==
  IF IsNullish(content) THEN <<>>
  ELSE replaceAll(
         replaceAll(
           replaceAll(
             replaceAll(
               replaceAll(content.s, "&", <<"&", "a", "m", "p", ";">>),
               "<", <<"&", "l", "t", ";">>),
             ">", <<"&", "g", "t", ";">>),
           "\"", <<"&", "q", "u", "o", "t", ";">>),
         "'", <<"&", "#", "0", "3", "9", ";">>)

(* faulty variant: the blocklist looks for javascript: only *)
validateAttribute_javascriptOnly(cfg, name, value) ==
  IF ~Truthy(cfg.validateAttributes) THEN "ok"
  ELSE IF Len(name) = 0 THEN "TypeError"
  ELSE IF /\ toLowerCase(name) \in {S_srcdoc, S_formaction}
          /\ value.t = "string"
          /\ includes(value.s, S_javascript)
       THEN "DOMException"
  ELSE "ok"

(* faulty variant: validation runs whatever the builder's setting *)
validateAttribute_always(cfg, name, value) ==
  IF Len(name) = 0 THEN "TypeError"
  ELSE IF /\ toLowerCase(name) \in {S_srcdoc, S_formaction}
          /\ value.t = "string"
          /\ (includes(value.s, S_javascript) \/ includes(value.s, S_datahtml))
       THEN "DOMException"
  ELSE "ok"

(* validateAttribute: "ok", or the exception it throws *)
validateAttribute(cfg, name, value) ==
  IF ~Truthy(cfg.validateAttributes) THEN "ok"
  ELSE IF Len(name) = 0 THEN "TypeError"
  ELSE IF /\ toLowerCase(name) \in {S_srcdoc, S_formaction}
          /\ value.t = "string"
          /\ (includes(value.s, S_javascript) \/ includes(value.s, S_datahtml))
       THEN "DOMException"
  ELSE "ok"

(* faulty variant: the value is written between the quotes as it is *)
attributePart_raw(name, value) ==
  IF value = True \/ name \in BOOLEAN_ATTRIBUTES
  THEN name
  ELSE name \o <<"=", "\"">> \o value.s \o <<"\"">>

(* faulty variant: only the value true makes an attribute name-only *)
attributePart_trueOnly(name, value) ==
  IF value = True
  THEN name
  ELSE name \o <<"=", "\"">> \o escapeHtml(value) \o <<"\"">>

(* the rendered form of one attribute that is neither skipped nor rejected *)
attributePart(name, value) ==
  IF value = True \/ name \in BOOLEAN_ATTRIBUTES
  THEN name
  ELSE name \o <<"=", "\"">> \o escapeHtml(value) \o <<"\"">>

(* a property name that is a canonical array index: digits, no leading zero *)
IsArrayIndex(name) ==
  /\ Len(name) > 0
  /\ \A i \in 1..Len(name) :
       name[i] \in {"0", "1", "2", "3", "4", "5", "6", "7", "8", "9"}
  /\ (Len(name) = 1 \/ name[1] # "0")

RECURSIVE IndexValue(_)
IndexValue(name) ==
  IF name = <<>> THEN 0
  ELSE 10 * IndexValue(SubSeq(name, 1, Len(name) - 1))
         + (CHOOSE d \in 0..9 :
              <<"0", "1", "2", "3", "4", "5", "6", "7", "8", "9">>[d + 1] = name[Len(name)])

(* the entries at the positions idx, in ascending order of their index names *)
RECURSIVE IndexEntries(_, _)
IndexEntries(object, idx) ==
  IF idx = {} THEN <<>>
  ELSE LET m == CHOOSE i \in idx :
                  \A j \in idx : IndexValue(object[i].name) <= IndexValue(object[j].name)
       IN <<object[m]>> \o IndexEntries(object, idx \ {m})

IsNamedEntry(e) == ~IsArrayIndex(e.name)

(* Object.entries of an object given by its keys in insertion order: the
   array-index keys first, in ascending numeric order, then the other keys
   in insertion order *)
ObjectEntries(object) ==
  IndexEntries(object, {i \in 1..Len(object) : IsArrayIndex(object[i].name)})
    \o SelectSeq(object, IsNamedEntry)

(* faulty variant: an entry is validated before its value is looked at *)
RECURSIVE attributeParts_validateFirst(_, _, _)
attributeParts_validateFirst(cfg, attributes, i) ==
  IF i > Len(attributes) THEN [err |-> "none", parts |-> <<>>]
  ELSE
    LET name == attributes[i].name
        value == attributes[i].value
        rest == attributeParts_validateFirst(cfg, attributes, i + 1)
    IN IF validateAttribute(cfg, name, value) # "ok"
            THEN [err |-> validateAttribute(cfg, name, value), parts |-> <<>>]
       ELSE IF value.t = "function" THEN rest
       ELSE IF value.t \in {"null", "undefined"} \/ value = False THEN rest
       ELSE IF rest.err # "none" THEN rest
       ELSE [err |-> "none", parts |-> <<attributePart(name, value)>> \o rest.parts]

(* the loop of buildAttributeString over the entries from index i on *)
RECURSIVE attributeParts(_, _, _)
attributeParts(cfg, attributes, i) ==
  IF i > Len(attributes) THEN [err |-> "none", parts |-> <<>>]
  ELSE
    LET name == attributes[i].name
        value == attributes[i].value
        rest == attributeParts(cfg, attributes, i + 1)
    IN IF value.t = "function" THEN rest
       ELSE IF validateAttribute(cfg, name, value) # "ok"
            THEN [err |-> validateAttribute(cfg, name, value), parts |-> <<>>]
       ELSE IF value.t \in {"null", "undefined"} \/ value = False THEN rest
       ELSE IF rest.err # "none" THEN rest
       ELSE [err |-> "none", parts |-> <<attributePart(name, value)>> \o rest.parts]

(* faulty variant: no space before the first attribute *)
buildAttributeString_noLeadingSpace(cfg, attributes) ==
  LET r == attributeParts(cfg, ObjectEntries(attributes), 1)
  IN [err |-> r.err,
      s |-> IF r.err = "none" /\ Len(r.parts) > 0
            THEN join(r.parts, <<" ">>)
            ELSE <<>>]

buildAttributeString(cfg, attributes) ==
  LET r == attributeParts(cfg, ObjectEntries(attributes), 1)
  IN [err |-> r.err,
      s |-> IF r.err = "none" /\ Len(r.parts) > 0
            THEN <<" ">> \o join(r.parts, <<" ">>)
            ELSE <<>>]

(* faulty variant: only the outermost arrays are opened *)
RECURSIVE flattenContent_oneLevel(_)
flattenContent_oneLevel(content) ==
  IF content = <<>> THEN <<>>
  ELSE (IF Head(content).t = "array"
        THEN Head(content).items
        ELSE <<Head(content)>>) \o flattenContent_oneLevel(Tail(content))

RECURSIVE flattenContent(_)
flattenContent(content) ==
  IF content = <<>> THEN <<>>
  ELSE (IF Head(content).t = "array"
        THEN flattenContent(Head(content).items)
        ELSE <<Head(content)>>) \o flattenContent(Tail(content))

processContent(cfg, content, escapeContent) ==
  IF IsNullish(content) THEN <<>>
  ELSE IF content.t = "string"
       THEN (IF Truthy(escapeContent) THEN escapeHtml(content) ELSE content.s)
  ELSE IF content.t = "number" THEN content.s
  ELSE IF cfg.isSsr THEN content.s
  ELSE content.s

(* childContent: flatChildren.map(processContent).join("") *)
RECURSIVE mapProcessContent(_, _, _)
mapProcessContent(cfg, flat, escapeContent) ==
  IF flat = <<>> THEN <<>>
  ELSE processContent(cfg, Head(flat), escapeContent)
         \o mapProcessContent(cfg, Tail(flat), escapeContent)

(* faulty variant: the options of the call are not merged in *)
mergeOptions_builderOnly(cfg, options) ==
  [escapeContent |-> cfg.escapeContent,
   validateAttributes |-> cfg.validateAttributes]

(* { ...this.config, ...options }: a key of options, even one holding
   undefined, replaces the builder's value *)
mergeOptions(cfg, options) ==
  [escapeContent |->
     IF options.escapeContent = "absent" THEN cfg.escapeContent
     ELSE options.escapeContent,
   validateAttributes |->
     IF options.validateAttributes = "absent" THEN cfg.validateAttributes
     ELSE options.validateAttributes]

-----------------------------------------------------------------------------
(* Results of a call: a string, a host node, or a raised exception.        *)

NoElement == [tag |-> <<>>, attrs |-> <<>>, listeners |-> <<>>, childNodes |-> <<>>]

StringResult(s) == [kind |-> "string", s |-> s, el |-> NoElement]
Raised(err) == [kind |-> err, s |-> <<>>, el |-> NoElement]
NoResult == [kind |-> "none", s |-> <<>>, el |-> NoElement]

(* faulty variant: the void-tag lookup does not fold the tag's case *)
createElementSSR_caseSensitive(cfg, tagName, attributes, options, children) ==
  LET opts == mergeOptions(cfg, options)
      attributeString == buildAttributeString(cfg, attributes)
      isVoid == tagName \in voidTags(cfg)
      childContent == mapProcessContent(cfg, flattenContent(children), opts.escapeContent)
  IN IF attributeString.err # "none" THEN Raised(attributeString.err)
     ELSE IF isVoid
          THEN StringResult(<<"<">> \o tagName \o attributeString.s \o <<">">>)
     ELSE StringResult(<<"<">> \o tagName \o attributeString.s \o <<">">>
                         \o childContent
                         \o <<"<", "/">> \o tagName \o <<">">>)

createElementSSR(cfg, tagName, attributes, options, children) ==
  LET opts == mergeOptions(cfg, options)
      attributeString == buildAttributeString(cfg, attributes)
      isVoid == toLowerCase(tagName) \in voidTags(cfg)
      childContent == mapProcessContent(cfg, flattenContent(children), opts.escapeContent)
  IN IF attributeString.err # "none" THEN Raised(attributeString.err)
     ELSE IF isVoid
          THEN StringResult(<<"<">> \o tagName \o attributeString.s \o <<">">>)
     ELSE StringResult(<<"<">> \o tagName \o attributeString.s \o <<">">>
                         \o childContent
                         \o <<"<", "/">> \o tagName \o <<">">>)

(* the attribute loop of createElementClient over the entries from index i on:
   the listeners and attributes set on the element, or the exception *)
RECURSIVE clientAttributes(_, _, _)
clientAttributes(cfg, attrs, i) ==
  IF i > Len(attrs) THEN [err |-> "none", attrs |-> <<>>, listeners |-> <<>>]
  ELSE
    LET name == attrs[i].name
        value == attrs[i].value
        rest == clientAttributes(cfg, attrs, i + 1)
        eventName == IF Len(name) >= 2 /\ toLowerCase(SubSeq(name, 1, 2)) = <<"o", "n">>
                     THEN SubSeq(name, 3, Len(name))
                     ELSE name
    IN IF value.t = "function"
       THEN [rest EXCEPT !.listeners = <<eventName>> \o @]
       ELSE IF ~(value.t \in {"null", "undefined"}) /\ value # False
       THEN IF validateAttribute(cfg, name, value) # "ok"
            THEN [err |-> validateAttribute(cfg, name, value),
                  attrs |-> <<>>, listeners |-> <<>>]
            ELSE IF rest.err # "none" THEN rest
            ELSE [rest EXCEPT !.attrs =
                    <<[name |-> name,
                       value |-> IF value = True \/ name \in BOOLEAN_ATTRIBUTES
                                 THEN <<>> ELSE value.s]>> \o @]
       ELSE rest

(* faulty variant: a text node is created for an empty text too *)
RECURSIVE clientChildren_keepEmpty(_, _, _)
clientChildren_keepEmpty(cfg, flat, escapeContent) ==
  IF flat = <<>> THEN <<>>
  ELSE
    LET child == Head(flat)
        textContent == processContent(cfg, child, escapeContent)
        rest == clientChildren_keepEmpty(cfg, Tail(flat), escapeContent)
    IN IF child.t = "node" THEN <<[t |-> "node", s |-> child.s]>> \o rest
       ELSE IF ~IsNullish(child)
            THEN <<[t |-> "text", s |-> textContent]>> \o rest
       ELSE rest

(* the child loop of createElementClient and createFragment: the nodes
   appended, a passed node as itself and every other non-null child as a
   text node unless its text is empty *)
RECURSIVE clientChildren(_, _, _)
clientChildren(cfg, flat, escapeContent) ==
  IF flat = <<>> THEN <<>>
  ELSE
    LET child == Head(flat)
        textContent == processContent(cfg, child, escapeContent)
        rest == clientChildren(cfg, Tail(flat), escapeContent)
    IN IF child.t = "node" THEN <<[t |-> "node", s |-> child.s]>> \o rest
       ELSE IF ~IsNullish(child) /\ textContent # <<>>
            THEN <<[t |-> "text", s |-> textContent]>> \o rest
       ELSE rest

ElementResult(el) == [kind |-> "element", s |-> <<>>, el |-> el]
TextResult(s) == [kind |-> "text", s |-> s, el |-> NoElement]
FragmentResult(nodes) ==
  [kind |-> "fragment", s |-> <<>>, el |-> [NoElement EXCEPT !.childNodes = nodes]]

createElementClient(cfg, tagName, attributes, options, children) ==
  LET opts == mergeOptions(cfg, options)
      set == clientAttributes(cfg, ObjectEntries(attributes), 1)
  IN IF set.err # "none" THEN Raised(set.err)
     ELSE ElementResult(
            [tag |-> tagName,
             attrs |-> set.attrs,
             listeners |-> set.listeners,
             childNodes |->
               clientChildren(cfg, flattenContent(children), opts.escapeContent)])

createElement(cfg, tagName, attributes, options, children) ==
  IF cfg.isSsr
  THEN createElementSSR(cfg, tagName, attributes, options, children)
  ELSE createElementClient(cfg, tagName, attributes, options, children)

(* faulty variant: the escaped string is returned in client mode too *)
createText_alwaysString(cfg, text, escape) ==
  LET content == IF escape THEN escapeHtml(text) ELSE text.s
  IN StringResult(content)

createText(cfg, text, escape) ==
  LET content == IF escape THEN escapeHtml(text) ELSE text.s
  IN IF cfg.isSsr THEN StringResult(content) ELSE TextResult(text.s)

(* faulty variant: the server branch escapes whatever the builder's setting *)
createFragment_alwaysEscape(cfg, children) ==
  IF cfg.isSsr
  THEN StringResult(
         mapProcessContent(cfg, flattenContent(children), "true"))
  ELSE FragmentResult(
         clientChildren(cfg, flattenContent(children), cfg.escapeContent))

createFragment(cfg, children) ==
  IF cfg.isSsr
  THEN StringResult(
         mapProcessContent(cfg, flattenContent(children), cfg.escapeContent))
  ELSE FragmentResult(
         clientChildren(cfg, flattenContent(children), cfg.escapeContent))

(* createHtmlBuilder(config) *)
createHtmlBuilder(cfg) == Constructor(cfg)

(* faulty variant: the options are spread after isSsr: true *)
createSSRBuilder_optionsLast(options) ==
  Constructor([options EXCEPT
                 !.isSsr = IF options.isSsr = "absent" THEN TRUE
                           ELSE options.isSsr = "true"])

(* createSSRBuilder(options): new HtmlBuilder({...options, isSsr: true}) *)
createSSRBuilder(options) == Constructor([options EXCEPT !.isSsr = TRUE])

(* createClientBuilder(options): new HtmlBuilder({...options, isSsr: false}) *)
createClientBuilder(options) == Constructor([options EXCEPT !.isSsr = FALSE])

(* the configuration of the builder made by construction b *)
Construct(b) ==
  IF b.via = "createSSRBuilder" THEN createSSRBuilder(b.options)
  ELSE IF b.via = "createClientBuilder" THEN createClientBuilder(b.options)
  ELSE createHtmlBuilder(b.options)

-----------------------------------------------------------------------------
(* The inputs explored.                                                    *)

Flags == {"absent", "true", "false", "undefined"}

(* new HtmlBuilder(cfg): the caller's configuration objects *)
ConfigInputs ==
  [isSsr : BOOLEAN,
   escapeContent : {"absent", "false", "undefined"},
   validateAttributes : {"absent", "false", "undefined"},
   customVoidTags : {{}, {S_xv, S_MyTag}}]

(* the options objects handed to createSSRBuilder and createClientBuilder;
   the declared type leaves isSsr out, a JavaScript caller can still pass it *)
FactoryOptions ==
  [isSsr : {"absent", "true", "false"},
   escapeContent : {"absent", "false"},
   validateAttributes : {"absent", "false"},
   customVoidTags : {{}, {S_xv, S_MyTag}}]

Tags == {S_div, S_script, S_img, S_IMG, S_xv}

(* String.prototype.toUpperCase on the letters a-z *)
toUpperCase(s) ==
  [i \in 1..Len(s) |->
     IF \E k \in 1..Len(LowerChars) : LowerChars[k] = s[i]
     THEN UpperChars[CHOOSE k \in 1..Len(LowerChars) : LowerChars[k] = s[i]]
     ELSE s[i]]

(* the standard void tags, in lower and in upper case *)
VoidTagNames == STANDARD_VOID_TAGS \cup {toUpperCase(tg) : tg \in STANDARD_VOID_TAGS}

(* the tags the documentation lists as holding raw content *)
RawContentTags ==
  { S_script, S_pre, <<"s", "t", "y", "l", "e">>, <<"c", "o", "d", "e">>,
    <<"t", "e", "x", "t", "a", "r", "e", "a">>,
    <<"n", "o", "s", "c", "r", "i", "p", "t">>, <<"x", "m", "p">> }

(* the options argument: undefined, or an object with some of the keys *)
NoOptions == [present |-> FALSE, escapeContent |-> "absent", validateAttributes |-> "absent"]

Options ==
  {NoOptions}
    \cup [present : {TRUE}, escapeContent : {"true", "false"},
          validateAttributes : {"absent"}]
    \cup [present : {TRUE}, escapeContent : {"absent"},
          validateAttributes : {"true", "false"}]

(* { escapeContent: undefined }: the key is there, its value is undefined *)
UndefinedEscape ==
  [present |-> TRUE, escapeContent |-> "undefined", validateAttributes |-> "absent"]

(* the options that matter to an element without attributes *)
EscapeOptions == {o \in Options : o.validateAttributes = "absent"}

AttrEntries ==
  { [name |-> S_class, value |-> Str(S_quoted)],
    [name |-> S_checked, value |-> True],
    [name |-> S_srcdoc, value |-> Str(S_jsalert)],
    [name |-> S_srcdoc, value |-> Str(S_xpng)],
    [name |-> S_src, value |-> Str(S_xpng)],
    [name |-> S_srcdoc, value |-> Func],
    [name |-> S_formaction, value |-> Str(S_xdatahtml)],
    [name |-> <<>>, value |-> Str(S_xpng)] }

(* an attribute object: its keys in insertion order, no key twice *)
RECURSIVE AttrMapsOfLen(_)
AttrMapsOfLen(n) ==
  IF n = 0 THEN {<<>>}
  ELSE {Append(m, e) : m \in {x \in AttrMapsOfLen(n - 1) : Len(x) = n - 1},
                       e \in AttrEntries}

AttrMaps ==
  {m \in UNION {AttrMapsOfLen(n) : n \in 0..MaxAttrs} :
     \A i, j \in 1..Len(m) : i # j => m[i].name # m[j].name}

(* attributes of every rendering kind: valued, name-only, omitted, callable,
   and two with array-index names *)
S_type == <<"t", "y", "p", "e">>
S_checkbox == <<"c", "h", "e", "c", "k", "b", "o", "x">>
S_disabled == <<"d", "i", "s", "a", "b", "l", "e", "d">>
S_input == <<"i", "n", "p", "u", "t">>

KindEntries ==
  { [name |-> S_type, value |-> Str(S_checkbox)],
    [name |-> S_checked, value |-> True],
    [name |-> S_checked, value |-> Str(S_quoted)],
    [name |-> S_disabled, value |-> False],
    [name |-> S_class, value |-> Null],
    [name |-> S_class, value |-> Undefined],
    [name |-> S_class, value |-> True],
    [name |-> S_onclick, value |-> Func],
    [name |-> <<>>, value |-> Func],
    [name |-> <<"1">>, value |-> Str(S_xpng)],
    [name |-> <<"0">>, value |-> True] }

RECURSIVE KindMapsOfLen(_)
KindMapsOfLen(n) ==
  IF n = 0 THEN {<<>>}
  ELSE {Append(m, e) : m \in KindMapsOfLen(n - 1), e \in KindEntries}

KindMaps ==
  {m \in UNION {KindMapsOfLen(n) : n \in 0..MaxAttrs} :
     \A i, j \in 1..Len(m) : i # j => m[i].name # m[j].name}

(* attribute maps whose entries the serializer skips: an empty-string key or
   a blocklisted name holding null, undefined or false *)
SkippedMaps ==
  { <<[name |-> <<>>, value |-> Null]>>,
    <<[name |-> <<>>, value |-> Undefined]>>,
    <<[name |-> <<>>, value |-> False]>>,
    <<[name |-> S_srcdoc, value |-> Null]>>,
    <<[name |-> S_formaction, value |-> False]>>,
    <<[name |-> S_class, value |-> Str(S_quoted)], [name |-> <<>>, value |-> Null]>> }

(* { type: 'checkbox', checked: true, disabled: false } *)
CheckboxAttrs ==
  <<[name |-> S_type, value |-> Str(S_checkbox)],
    [name |-> S_checked, value |-> True],
    [name |-> S_disabled, value |-> False]>>

ChildLeaves == {Str(S_altb), Num(S_seven), Null, True, Obj(S_objtext)}

RECURSIVE ListsOfLen(_, _)
ListsOfLen(S, n) ==
  IF n = 0 THEN {<<>>}
  ELSE {Append(l, x) : l \in ListsOfLen(S, n - 1), x \in S}

ChildLists == UNION {ListsOfLen(ChildLeaves, n) : n \in 0..MaxChildren}

(* a child list regrouped into nested arrays, its leaves in the same order *)
Nestings(l) ==
  IF l = <<>> THEN {<<Arr(<<>>)>>, <<Arr(<<Arr(<<>>)>>)>>}
  ELSE { <<Arr(l)>>,
         <<Arr(<<Arr(l)>>)>>,
         <<Head(l), Arr(Tail(l))>>,
         <<Arr(<<Head(l)>>), Arr(<<Arr(<<Arr(Tail(l))>>)>>)>> }

(* child lists with null, undefined and the empty string, flat and nested *)
EmptyChildLists ==
  { <<Null>>, <<Undefined>>, <<Str(<<>>)>>,
    <<Str(S_altb), Undefined, Str(<<>>)>>,
    <<Arr(<<Null, Arr(<<Undefined>>)>>), Str(S_altb)>>,
    <<Arr(<<Arr(<<Null>>), Undefined>>)>> }

S_ul == <<"u", "l">>

(* [['a', 'b'], 'c', [['d']]] *)
NestedExample ==
  <<Arr(<<Arr(<<Str(<<"a">>), Str(<<"b">>)>>), Str(<<"c">>),
          Arr(<<Arr(<<Str(<<"d">>)>>)>>)>>)>>

NestedChildLists == UNION {Nestings(l) : l \in ChildLists} \cup {NestedExample}

(* arguments of the static escapeHtml: every string over the five special
   characters and a letter up to MaxTextLen, strings that already look
   escaped, and values that are not strings *)
EscapeAlphabet == {"&", "<", ">", "\"", "'", "a"}

S_lt == <<"&", "l", "t", ";">>
S_ampamp == <<"&", "a", "m", "p", ";", "&">>
S_tagquote == <<"<", "b", ">", "\"", "x", "'", "&">>

EscapeInputs ==
  {Str(s) : s \in UNION {[1..n -> EscapeAlphabet] : n \in 0..MaxTextLen}}
    \cup {Str(S_lt), Str(S_ampamp), Str(S_tagquote), Null, Undefined, Num(S_seven)}

TextPool == {Str(S_btag), Str(S_quoted)}

NoHeld == [from |-> "none", v |-> Undefined, text |-> Undefined, escape |-> FALSE]

NoCall ==
  [op |-> "none", tag |-> <<>>, attrs |-> <<>>, opts |-> NoOptions,
   children |-> <<>>, text |-> Undefined, escape |-> FALSE, heldAt |-> 0]

(* the argument lists of the createElement calls explored: every child list
   on an element without attributes, every attribute map on an element with
   one child, every raw-content tag, every standard void tag and a custom
   void tag with upper-case letters, and, once
   the caller has kept a result, that result as the last child; attribute
   maps of every rendering kind on a div with two children; child lists
   regrouped into nested arrays; an escapeContent option holding undefined;
   children that are null, undefined or empty; attribute maps whose entries
   are skipped *)
ElementCalls ==
  IF held.from = "none"
  THEN [tag : Tags, attrs : {<<>>}, opts : EscapeOptions, children : ChildLists,
        heldAt : {0}]
         \cup [tag : {S_div, S_script}, attrs : AttrMaps, opts : Options,
               children : {<<Str(S_altb)>>}, heldAt : {0}]
         \cup [tag : RawContentTags, attrs : {<<>>}, opts : EscapeOptions,
               children : {<<Str(S_altb)>>}, heldAt : {0}]
         \cup [tag : {S_div}, attrs : KindMaps, opts : {NoOptions},
               children : {<<Str(S_altb), Num(S_seven)>>}, heldAt : {0}]
         \cup [tag : {S_div}, attrs : {<<>>}, opts : {UndefinedEscape},
               children : {<<Str(S_altb)>>, <<Str(S_altb), Str(S_quoted)>>},
               heldAt : {0}]
         \cup [tag : {S_div}, attrs : {<<>>}, opts : EscapeOptions,
               children : EmptyChildLists, heldAt : {0}]
         \cup [tag : {S_div}, attrs : SkippedMaps, opts : {NoOptions},
               children : {<<>>}, heldAt : {0}]
         \cup [tag : {S_ul}, attrs : {<<>>}, opts : {NoOptions},
               children : NestedChildLists, heldAt : {0}]
         \cup [tag : {S_input}, attrs : {CheckboxAttrs}, opts : {NoOptions},
               children : {<<>>}, heldAt : {0}]
         \cup [tag : VoidTagNames \cup {S_MyTag},
               attrs : {<<>>, <<[name |-> S_src, value |-> Str(S_xpng)]>>},
               opts : {NoOptions},
               children : {<<>>, <<Str(S_ignored)>>}, heldAt : {0}]
  ELSE [tag : {S_div, S_script, S_img}, attrs : {<<>>}, opts : EscapeOptions,
        children : {<<held.v>>}, heldAt : {1}]
         \cup [tag : {S_div, S_script, S_img}, attrs : {<<>>}, opts : EscapeOptions,
               children : {<<Str(S_altb), held.v>>}, heldAt : {2}]

-----------------------------------------------------------------------------
(* The builder and its caller.                                             *)

(* built records how the builder was made: by whom, from which object *)
Init ==
  /\ built \in [via : {"createHtmlBuilder"}, options : ConfigInputs]
  /\ config = Construct(built)
  /\ held = NoHeld
  /\ call = NoCall
  /\ out = NoResult

CreateElement ==
  /\ call.op = "none"
  /\ \E c \in ElementCalls :
       /\ call' = [NoCall EXCEPT !.op = "createElement", !.tag = c.tag,
                                 !.attrs = c.attrs, !.opts = c.opts,
                                 !.children = c.children, !.heldAt = c.heldAt]
       /\ out' = createElement(config, c.tag, c.attrs, c.opts, c.children)
  /\ UNCHANGED <<config, held, built>>

CreateText ==
  /\ call.op = "none"
  /\ held.from = "none"
  /\ \E text \in TextPool, escape \in BOOLEAN :
       /\ call' = [NoCall EXCEPT !.op = "createText", !.text = text,
                                 !.escape = escape]
       /\ out' = createText(config, text, escape)
  /\ UNCHANGED <<config, held, built>>

CreateFragment ==
  /\ call.op = "none"
  /\ held.from = "none"
  /\ \E children \in ChildLists \cup NestedChildLists \cup EmptyChildLists :
       /\ call' = [NoCall EXCEPT !.op = "createFragment", !.children = children]
       /\ out' = createFragment(config, children)
  /\ UNCHANGED <<config, held, built>>

(* HtmlBuilder.escapeHtml(content), the static method *)
EscapeHtml ==
  /\ call.op = "none"
  /\ held.from = "none"
  /\ \E content \in EscapeInputs :
       /\ call' = [NoCall EXCEPT !.op = "escapeHtml", !.text = content]
       /\ out' = StringResult(escapeHtml(content))
  /\ UNCHANGED <<config, held, built>>

(* textContent of a host node *)
RECURSIVE textContent(_)
textContent(nodes) ==
  IF nodes = <<>> THEN <<>> ELSE Head(nodes).s \o textContent(Tail(nodes))

(* the result as the caller passes it on: a string, or a host node *)
AsValue(r) ==
  IF r.kind = "string" THEN Str(r.s)
  ELSE IF r.kind = "text" THEN NodeVal(r.s)
  ELSE NodeVal(textContent(r.el.childNodes))

(* the caller keeps the result of createElement or createText, to pass it
   as a child of its next createElement call *)
Keep ==
  /\ call.op \in {"createElement", "createText"}
  /\ out.kind \in {"string", "element", "text"}
  /\ Len(AsValue(out).s) <= MaxHeldLen
  /\ held' = [from |-> call.op, v |-> AsValue(out), text |-> call.text,
              escape |-> call.escape]
  /\ call' = NoCall
  /\ out' = NoResult
  /\ UNCHANGED <<config, built>>

(* the caller is done with the result, or has caught the exception *)
Drop ==
  /\ call.op # "none"
  /\ held' = NoHeld
  /\ call' = NoCall
  /\ out' = NoResult
  /\ UNCHANGED <<config, built>>

Next ==
  CreateElement \/ CreateText \/ CreateFragment \/ EscapeHtml \/ Keep \/ Drop

Spec == Init /\ [][Next]_vars

(* the builder is made by one of the two mode factories *)
InitFactory ==
  /\ built \in [via : {"createSSRBuilder", "createClientBuilder"},
                options : FactoryOptions]
  /\ config = Construct(built)
  /\ held = NoHeld
  /\ call = NoCall
  /\ out = NoResult

SpecFactory == InitFactory /\ [][Next]_vars

(* The constructor copies the caller's object shallowly: config.customVoidTags
   is the caller's Set object itself, and the model's config.customVoidTags is
   the content of that object.  Between two calls the caller adds a name to
   the Set or deletes one from it. *)
MutableNames == {S_xv, S_div}

MutateCustomVoidTags ==
  /\ call.op = "none"
  /\ \E name \in MutableNames :
       config' = [config EXCEPT
                    !.customVoidTags = IF name \in @ THEN @ \ {name}
                                       ELSE @ \cup {name}]
  /\ UNCHANGED <<held, call, out, built>>

SharedSetConfigs ==
  [isSsr : BOOLEAN, escapeContent : {"absent"}, validateAttributes : {"absent"},
   customVoidTags : {{}, {S_xv}}]

InitSharedSet ==
  /\ built \in [via : {"createHtmlBuilder"}, options : SharedSetConfigs]
  /\ config = Construct(built)
  /\ held = NoHeld
  /\ call = NoCall
  /\ out = NoResult

NextSharedSet == Next \/ MutateCustomVoidTags

(* the builder and a caller that keeps using the Set it passed *)
SpecSharedSet == InitSharedSet /\ [][NextSharedSet]_vars

-----------------------------------------------------------------------------
(* Vocabulary of the properties.                                           *)

StartsWith(s, prefix) ==
  Len(prefix) <= Len(s) /\ SubSeq(s, 1, Len(prefix)) = prefix

EndsWith(s, suffix) ==
  Len(suffix) <= Len(s) /\ SubSeq(s, Len(s) - Len(suffix) + 1, Len(s)) = suffix

OpenTag(tag) == <<"<">> \o tag \o <<">">>

CloseTag(tag) == <<"<", "/">> \o tag \o <<">">>

(* the children's texts in order, each escaped or each verbatim *)
RECURSIVE ConcatText(_, _)
ConcatText(children, escaped) ==
  IF children = <<>> THEN <<>>
  ELSE (IF escaped THEN escapeHtml(Head(children)) ELSE Head(children).s)
         \o ConcatText(Tail(children), escaped)

AllStrings(children) == \A i \in 1..Len(children) : children[i].t = "string"

(* a builder constructed from { isSsr } alone *)
DefaultConfig ==
  /\ config.escapeContent = "true"
  /\ config.validateAttributes = "true"
  /\ config.customVoidTags = {}

ServerElementCall == call.op = "createElement" /\ config.isSsr

IsError(r) == r.kind \in {"TypeError", "DOMException"}

-----------------------------------------------------------------------------
(* C1: in server mode with the default configuration, the string one
   createElement call returned, passed as the last child of another
   createElement call on the same builder, appears verbatim in the parent's
   output, directly before the parent's closing tag. *)
C1_NestedElementVerbatim ==
  (/\ ServerElementCall
   /\ DefaultConfig
   /\ ~call.opts.present
   /\ held.from = "createElement"
   /\ call.heldAt > 0
   /\ call.heldAt = Len(call.children)
   /\ call.tag = S_div
   /\ out.kind = "string")
  => EndsWith(out.s, held.v.s \o CloseTag(call.tag))

(* C2: escaping is never applied twice: in server mode the value returned by
   createText(s, true), as the only child of a div, is rendered as
   <div> + escapeHtml(s) + </div>, whatever the per-call and the builder's
   escape flags are. *)
C2_NoDoubleEscape ==
  (/\ ServerElementCall
   /\ held.from = "createText"
   /\ held.escape
   /\ call.tag = S_div
   /\ call.attrs = <<>>
   /\ call.children = <<held.v>>)
  => out = StringResult(OpenTag(S_div) \o escapeHtml(held.text) \o CloseTag(S_div))

(* C3: in server mode with the default configuration and no per-call
   escapeContent option, the string children of a raw-content tag (script,
   style, pre, code, textarea, noscript, xmp) are rendered unescaped and the
   string children of every other non-void tag are rendered escaped. *)
C3_RawContentTagDefault ==
  (/\ ServerElementCall
   /\ DefaultConfig
   /\ call.opts.escapeContent = "absent"
   /\ held.from = "none"
   /\ call.attrs = <<>>
   /\ call.children # <<>>
   /\ AllStrings(call.children)
   /\ toLowerCase(call.tag) \notin STANDARD_VOID_TAGS)
  => out = StringResult(
             OpenTag(call.tag)
               \o ConcatText(call.children, call.tag \notin RawContentTags)
               \o CloseTag(call.tag))

(* C4: an explicit per-call escapeContent option is honoured exactly, for
   every tag and every builder default: in server mode, with
   options.escapeContent = true every string child of a non-void element is
   rendered as escapeHtml(child), and with options.escapeContent = false
   every string child is rendered verbatim. *)
C4_ExplicitEscapeHonoured ==
  (/\ ServerElementCall
   /\ call.opts.escapeContent \in {"true", "false"}
   /\ AllStrings(call.children)
   /\ toLowerCase(call.tag) \notin STANDARD_VOID_TAGS \cup config.customVoidTags
   /\ out.kind = "string")
  => /\ EndsWith(out.s,
                 <<">">> \o ConcatText(call.children, call.opts.escapeContent = "true")
                         \o CloseTag(call.tag))
     /\ call.attrs = <<>> =>
          out.s = OpenTag(call.tag)
                    \o ConcatText(call.children, call.opts.escapeContent = "true")
                    \o CloseTag(call.tag)

(* createElement('script', {}, {escapeContent: true}, 'a<b') on a builder
   whose escapeContent is false returns <script>a&lt;b</script> *)
C4_Witness ==
  /\ ServerElementCall
  /\ config.escapeContent = "false"
  /\ call.tag = S_script
  /\ call.attrs = <<>>
  /\ call.opts.escapeContent = "true"
  /\ call.children = <<Str(S_altb)>>
  /\ out.s = <<"<", "s", "c", "r", "i", "p", "t", ">", "a", "&", "l", "t", ";", "b",
               "<", "/", "s", "c", "r", "i", "p", "t", ">">>

(* C5: in server mode a child that is neither a string, a number,
   null/undefined nor an array (a boolean, an object) is coerced to its
   string form and, with escaping in effect, rendered as
   escapeHtml(String(child)). *)
C5_OtherContentEscaped ==
  (/\ ServerElementCall
   /\ held.from = "none"
   /\ call.attrs = <<>>
   /\ Len(call.children) = 1
   /\ call.children[1].t \in {"boolean", "object"}
   /\ toLowerCase(call.tag) \notin STANDARD_VOID_TAGS \cup config.customVoidTags
   /\ call.tag \notin RawContentTags
   /\ \/ call.opts.escapeContent = "true"
      \/ call.opts.escapeContent = "absent" /\ config.escapeContent = "true")
  => out = StringResult(OpenTag(call.tag) \o escapeHtml(call.children[1])
                          \o CloseTag(call.tag))

(* an attribute that is rendered with a value: not a listener, not omitted,
   not rendered by name only *)
IsValuedAttribute(e) ==
  /\ e.value.t \notin {"function", "null", "undefined"}
  /\ e.value \notin {True, False}
  /\ e.name \notin BOOLEAN_ATTRIBUTES

HasRawCharacter(s) == \E i \in 1..Len(s) : s[i] \in {"\"", "<", ">", "'"}

(* C6: in server mode every valued attribute is serialized as
   name="escapeHtml(value)", whatever the builder's escapeContent setting, the
   per-call escapeContent option and the tag are, and the text between the
   quotes holds no raw ", <, > or '. *)
C6_AttributeValuesEscaped ==
  (ServerElementCall /\ out.kind = "string")
  => \A i \in 1..Len(call.attrs) :
       IsValuedAttribute(call.attrs[i]) =>
         /\ includes(out.s, <<" ">> \o call.attrs[i].name \o <<"=", "\"">>
                              \o escapeHtml(call.attrs[i].value) \o <<"\"">>)
         /\ ~HasRawCharacter(escapeHtml(call.attrs[i].value))
         /\ ~includes(out.s, <<" ">> \o call.attrs[i].name \o <<"=", "\"">>
                               \o call.attrs[i].value.s \o <<"\"">>)
              \/ escapeHtml(call.attrs[i].value) = call.attrs[i].value.s

(* a script element with escaping switched off twice still has the value of
   its class attribute escaped *)
C6_Witness ==
  /\ ServerElementCall
  /\ config.escapeContent = "false"
  /\ call.opts.escapeContent = "false"
  /\ call.tag = S_script
  /\ call.attrs = <<[name |-> S_class, value |-> Str(S_quoted)]>>
  /\ out.s = <<"<", "s", "c", "r", "i", "p", "t", " ", "c", "l", "a", "s", "s", "=", "\"",
               "&", "q", "u", "o", "t", ";", "&", "l", "t", ";", "&", "g", "t", ";",
               "&", "#", "0", "3", "9", ";", "&", "a", "m", "p", ";", "\"", ">",
               "a", "<", "b", "<", "/", "s", "c", "r", "i", "p", "t", ">">>

(* an attribute the blocklist is about: srcdoc or formaction with a string
   value containing javascript: or data:text/html *)
UnsafeEntry(e) ==
  /\ e.name \in {S_srcdoc, S_formaction}
  /\ e.value.t = "string"
  /\ (includes(e.value.s, S_javascript) \/ includes(e.value.s, S_datahtml))

HasUnsafeEntry(attrs) == \E i \in 1..Len(attrs) : UnsafeEntry(attrs[i])

AllNamesValid(attrs) == \A i \in 1..Len(attrs) : attrs[i].name # <<>>

(* C7: with attribute validation enabled, in either mode, createElement
   raises a DOMException and returns no output whenever an attribute named
   srcdoc or formaction has a string value containing javascript: or
   data:text/html, wherever it stands in the map and whatever valid
   attributes stand before or after it. *)
C7_UnsafeValueRejected ==
  (/\ call.op = "createElement"
   /\ config.validateAttributes = "true"
   /\ call.opts.validateAttributes # "false"
   /\ HasUnsafeEntry(call.attrs)
   /\ AllNamesValid(call.attrs))
  => out = Raised("DOMException")

(* in client mode, an unsafe formaction after a valid class attribute *)
C7_Witness ==
  /\ call.op = "createElement"
  /\ ~config.isSsr
  /\ config.validateAttributes = "true"
  /\ call.attrs = <<[name |-> S_class, value |-> Str(S_quoted)],
                    [name |-> S_formaction, value |-> Str(S_xdatahtml)]>>
  /\ out = Raised("DOMException")

(* C8: on a builder constructed with validateAttributes = false, createElement
   raises no validation error for any attribute map, and a blocklisted
   attribute is rendered like any other valued attribute. *)
C8_ValidationDisabledNoOp ==
  (/\ call.op = "createElement"
   /\ config.validateAttributes = "false"
   /\ call.opts.validateAttributes # "true")
  => /\ ~IsError(out)
     /\ \A i \in 1..Len(call.attrs) :
          UnsafeEntry(call.attrs[i]) =>
            IF config.isSsr
            THEN includes(out.s, <<" ">> \o call.attrs[i].name \o <<"=", "\"">>
                                   \o escapeHtml(call.attrs[i].value) \o <<"\"">>)
            ELSE \E k \in 1..Len(out.el.attrs) :
                   out.el.attrs[k] = [name |-> call.attrs[i].name,
                                      value |-> call.attrs[i].value.s]

(* createElement('div', {srcdoc: 'javascript:alert(1)'}, undefined, 'a<b') on
   a server builder that does not validate *)
C8_Witness ==
  /\ ServerElementCall
  /\ config.validateAttributes = "false"
  /\ config.escapeContent = "true"
  /\ ~call.opts.present
  /\ call.tag = S_div
  /\ call.attrs = <<[name |-> S_srcdoc, value |-> Str(S_jsalert)]>>
  /\ out.s = <<"<", "d", "i", "v", " ", "s", "r", "c", "d", "o", "c", "=", "\"",
               "j", "a", "v", "a", "s", "c", "r", "i", "p", "t", ":", "a", "l",
               "e", "r", "t", "(", "1", ")", "\"", ">", "a", "&", "l", "t", ";", "b",
               "<", "/", "d", "i", "v", ">">>

(* C9: the per-call option validateAttributes decides validation for that
   call, overriding the builder's setting: with false an unsafe
   srcdoc/formaction value is accepted without error, with true it raises. *)
C9_PerCallValidateAttributes ==
  (/\ call.op = "createElement"
   /\ config.validateAttributes \in {"true", "false"}
   /\ HasUnsafeEntry(call.attrs)
   /\ AllNamesValid(call.attrs))
  => /\ call.opts.validateAttributes = "false" => ~IsError(out)
     /\ call.opts.validateAttributes = "true" => out = Raised("DOMException")

(* C10: in server mode, for each of the 14 standard void tags in any letter
   case, createElement returns exactly <tag + attribute string + >: no
   closing tag and none of the children, whatever children are passed. *)
C10_VoidTagNoBody ==
  (/\ ServerElementCall
   /\ toLowerCase(call.tag) \in STANDARD_VOID_TAGS
   /\ out.kind = "string")
  => /\ out.s = <<"<">> \o call.tag \o buildAttributeString(config, call.attrs).s
                  \o <<">">>
     /\ ~includes(out.s, <<"<", "/">>)
     /\ call.attrs = <<>> => out.s = OpenTag(call.tag)

(* createElement('IMG', {src: 'x.png'}, undefined, 'ignored') *)
C10_Witness ==
  /\ ServerElementCall
  /\ call.tag = S_IMG
  /\ call.attrs = <<[name |-> S_src, value |-> Str(S_xpng)]>>
  /\ call.children = <<Str(S_ignored)>>
  /\ out.s = <<"<", "I", "M", "G", " ", "s", "r", "c", "=", "\"",
               "x", ".", "p", "n", "g", "\"", ">">>

(* C11: in client mode an element whose tag is in the void-tag set (standard
   or custom) never has children appended: the returned node has no child
   nodes, whatever children are supplied. *)
C11_ClientVoidNoChildren ==
  (/\ call.op = "createElement"
   /\ ~config.isSsr
   /\ call.tag \in STANDARD_VOID_TAGS \cup config.customVoidTags
   /\ out.kind = "element")
  => out.el.childNodes = <<>>

(* C12: every tag name in the builder's customVoidTags is treated like a
   standard void tag: in server mode createElement returns the opening tag
   only, with no closing tag and no child content, also for names with
   upper-case letters. *)
C12_CustomVoidTags ==
  (/\ ServerElementCall
   /\ call.tag \in config.customVoidTags
   /\ out.kind = "string")
  => /\ out.s = <<"<">> \o call.tag \o buildAttributeString(config, call.attrs).s
                  \o <<">">>
     /\ ~includes(out.s, <<"<", "/">>)

(* what one attribute contributes to the opening tag: nothing when it is
   omitted (null, undefined, false, or a listener), its name when it is
   name-only, name="escaped value" otherwise; each with a leading space *)
RenderedAttribute(e) ==
  IF e.value.t \in {"function", "null", "undefined"} \/ e.value = False THEN <<>>
  ELSE IF e.value = True \/ e.name \in BOOLEAN_ATTRIBUTES THEN <<" ">> \o e.name
  ELSE <<" ">> \o e.name \o <<"=", "\"">> \o escapeHtml(e.value) \o <<"\"">>

RECURSIVE ExpectedAttributes(_)
ExpectedAttributes(entries) ==
  IF entries = <<>> THEN <<>>
  ELSE RenderedAttribute(Head(entries)) \o ExpectedAttributes(Tail(entries))

NoCallable(attrs) == \A i \in 1..Len(attrs) : attrs[i].value.t # "function"

NoIndexName(attrs) == \A i \in 1..Len(attrs) : ~IsArrayIndex(attrs[i].name)

(* C13: in server mode an attribute whose value is null, undefined or false
   is omitted; one whose value is true, or whose name is a boolean attribute
   with any other non-omitted value, is rendered by name only; every other
   attribute is rendered as name="value". *)
C13_AttributeKinds ==
  (/\ ServerElementCall
   /\ NoCallable(call.attrs)
   /\ NoIndexName(call.attrs)
   /\ out.kind = "string")
  => StartsWith(out.s,
                <<"<">> \o call.tag \o ExpectedAttributes(call.attrs) \o <<">">>)

(* createElement('input', {type: 'checkbox', checked: true, disabled: false})
   returns <input type="checkbox" checked> *)
C13_Witness ==
  /\ ServerElementCall
  /\ call.tag = S_input
  /\ call.attrs = CheckboxAttrs
  /\ out.s = <<"<", "i", "n", "p", "u", "t", " ", "t", "y", "p", "e", "=", "\"",
               "c", "h", "e", "c", "k", "b", "o", "x", "\"", " ",
               "c", "h", "e", "c", "k", "e", "d", ">">>

IsNotCallable(e) == e.value.t # "function"

(* C14: in server mode a callable attribute value is never serialized and
   never validated: the result of createElement, the output or the exception,
   is the result for the same map without its callable entries, under any
   key. *)
C14_CallablesDropped ==
  (/\ ServerElementCall
   /\ ~NoCallable(call.attrs))
  => out = createElementSSR(config, call.tag, SelectSeq(call.attrs, IsNotCallable),
                            call.opts, call.children)

(* on a validating builder, { '': handler, onclick: handler } leaves no trace
   and raises nothing *)
C14_Witness ==
  /\ ServerElementCall
  /\ config.validateAttributes = "true"
  /\ config.escapeContent = "true"
  /\ call.tag = S_div
  /\ call.attrs = <<[name |-> <<>>, value |-> Func],
                    [name |-> S_onclick, value |-> Func]>>
  /\ out.s = <<"<", "d", "i", "v", ">", "a", "&", "l", "t", ";", "b", "7",
               "<", "/", "d", "i", "v", ">">>

(* the leaves of a child value, left to right *)
RECURSIVE LeavesOf(_)
RECURSIVE LeavesOfAll(_, _)
LeavesOf(v) == IF v.t = "array" THEN LeavesOfAll(v.items, 1) ELSE <<v>>

LeavesOfAll(items, i) ==
  IF i > Len(items) THEN <<>> ELSE LeavesOf(items[i]) \o LeavesOfAll(items, i + 1)

HasArray(children) == \E i \in 1..Len(children) : children[i].t = "array"

(* C15: child flattening is fully recursive and order-preserving: for
   children nested in arrays to any depth the result is the one obtained by
   passing the same leaves, in left-to-right depth-first order, as a flat
   argument list; string leaves are rendered in that order. *)
C15_FlatteningRecursive ==
  (/\ call.op = "createElement"
   /\ HasArray(call.children))
  => /\ out = createElement(config, call.tag, call.attrs, call.opts,
                            LeavesOfAll(call.children, 1))
     /\ (config.isSsr /\ AllStrings(LeavesOfAll(call.children, 1))) =>
          out.s = OpenTag(call.tag)
                    \o ConcatText(LeavesOfAll(call.children, 1),
                                  Truthy(config.escapeContent))
                    \o CloseTag(call.tag)

(* createElement('ul', {}, undefined, [['a', 'b'], 'c', [['d']]]) returns
   <ul>abcd</ul> *)
C15_Witness ==
  /\ ServerElementCall
  /\ call.tag = S_ul
  /\ call.children = NestedExample
  /\ out.s = <<"<", "u", "l", ">", "a", "b", "c", "d", "<", "/", "u", "l", ">">>

(* the five fixed replacements *)
Replacements ==
  { [raw |-> "&", as |-> <<"&", "a", "m", "p", ";">>],
    [raw |-> "<", as |-> <<"&", "l", "t", ";">>],
    [raw |-> ">", as |-> <<"&", "g", "t", ";">>],
    [raw |-> "\"", as |-> <<"&", "q", "u", "o", "t", ";">>],
    [raw |-> "'", as |-> <<"&", "#", "0", "3", "9", ";">>] }

SpecialCharacters == {r.raw : r \in Replacements}

(* the replacement that starts at the head of s, if one does *)
ReplacementsAt(s) == {r \in Replacements : StartsWith(s, r.as)}

(* decoding in one pass, left to right *)
RECURSIVE Decode(_)
Decode(s) ==
  IF s = <<>> THEN <<>>
  ELSE IF ReplacementsAt(s) # {}
       THEN LET r == CHOOSE x \in ReplacementsAt(s) : TRUE
            IN  <<r.raw>> \o Decode(SubSeq(s, Len(r.as) + 1, Len(s)))
       ELSE <<Head(s)>> \o Decode(Tail(s))

(* no special character stands for itself: none of < > " ' occurs, and every
   & is the first character of one of the five replacements *)
NoRawSpecial(s) ==
  \A i \in 1..Len(s) :
    /\ s[i] \notin SpecialCharacters \ {"&"}
    /\ s[i] = "&" => ReplacementsAt(SubSeq(s, i, Len(s))) # {}

(* C16: for every string s that contains one of & < > " ', escapeHtml(s)
   holds none of these characters raw (an & occurs only as the start of one
   of the five replacements) and decoding the five replacements in
   escapeHtml(s) gives exactly s back. *)
C16_EscapeRoundTrip ==
  (/\ call.op = "escapeHtml"
   /\ call.text.t = "string"
   /\ \E i \in 1..Len(call.text.s) : call.text.s[i] \in SpecialCharacters)
  => /\ NoRawSpecial(out.s)
     /\ Decode(out.s) = call.text.s

(* escapeHtml('&lt;') is '&amp;lt;', which decodes to '&lt;' again *)
C16_Witness ==
  /\ call.op = "escapeHtml"
  /\ call.text = Str(S_lt)
  /\ out.s = <<"&", "a", "m", "p", ";", "l", "t", ";">>
  /\ Decode(out.s) = S_lt

RenderCall == call.op \in {"createElement", "createText", "createFragment"}

(* the configuration is the constructed one and the result has the type of
   the mode *)
ConfigAndResultTypeFixed ==
  /\ config = Construct(built)
  /\ (RenderCall /\ ~IsError(out))
     => out.kind \in (IF config.isSsr THEN {"string"}
                      ELSE {"element", "text", "fragment"})

(* C17: in every state a sequence of createElement, createText and
   createFragment calls can reach, raising calls included, the builder's
   configuration is the one its construction produced, and the result of a
   render call that returned has the type of the mode: a string in server
   mode, a host node (element, text node or fragment) in client mode; no
   step, of a call that returns or of one that raises, changes the
   configuration. *)
C17_ConfigAndResultTypeFixed ==
  []ConfigAndResultTypeFixed /\ [][config' = config]_vars

(* a client builder returns an element for a createElement call whose child
   is the text node of an earlier createText call *)
C17_Witness ==
  /\ ~config.isSsr
  /\ held.from = "createText"
  /\ call.op = "createElement"
  /\ out.kind = "element"
  /\ config = Construct(built)

(* a call has raised and the configuration is the constructed one *)
C17_WitnessRaised ==
  /\ RenderCall
  /\ IsError(out)
  /\ config = Construct(built)

(* the caller's configuration object sets neither flag: the key is absent
   or its value is undefined *)
NoFlagSet ==
  /\ built.options.escapeContent \in {"absent", "undefined"}
  /\ built.options.validateAttributes \in {"absent", "undefined"}

(* C18: a builder constructed without an escapeContent or
   validateAttributes setting (key absent, or value undefined) behaves as if
   both were true: with no per-call option the string children of a div are
   escaped, and an unsafe srcdoc/formaction value raises a DOMException. *)
C18_DefaultsWhenUnset ==
  (/\ call.op = "createElement"
   /\ NoFlagSet
   /\ call.opts = NoOptions)
  => /\ (/\ config.isSsr
         /\ call.tag = S_div
         /\ call.attrs = <<>>
         /\ AllStrings(call.children))
        => out.s = OpenTag(S_div) \o ConcatText(call.children, TRUE)
                     \o CloseTag(S_div)
     /\ (HasUnsafeEntry(call.attrs) /\ AllNamesValid(call.attrs))
        => out = Raised("DOMException")

(* an option as the constructor stores it: the default when the key is
   absent, the caller's value otherwise *)
PassedThrough(flag) == IF flag = "absent" THEN "true" ELSE flag

(* C19: a builder made by createSSRBuilder(options) has isSsr true and
   returns strings, one made by createClientBuilder(options) has isSsr false
   and returns host nodes, also when options carries an isSsr key of its
   own; escapeContent, validateAttributes and customVoidTags are the ones
   of options. *)
C19_FactoriesFixMode ==
  (built.via \in {"createSSRBuilder", "createClientBuilder"})
  => /\ config.isSsr = (built.via = "createSSRBuilder")
     /\ config.escapeContent = PassedThrough(built.options.escapeContent)
     /\ config.validateAttributes = PassedThrough(built.options.validateAttributes)
     /\ config.customVoidTags = built.options.customVoidTags
     /\ (RenderCall /\ ~IsError(out))
        => (out.kind = "string") = (built.via = "createSSRBuilder")

(* createSSRBuilder({isSsr: false, escapeContent: false,
   customVoidTags: new Set(['x-v', 'MyTag'])}) renders a string, unescaped *)
C19_Witness ==
  /\ built.via = "createSSRBuilder"
  /\ built.options.isSsr = "false"
  /\ built.options.escapeContent = "false"
  /\ built.options.customVoidTags = {S_xv, S_MyTag}
  /\ call.op = "createElement"
  /\ call.tag = S_div
  /\ call.opts = NoOptions
  /\ call.children = <<Str(S_altb)>>
  /\ out = StringResult(OpenTag(S_div) \o S_altb \o CloseTag(S_div))

(* a server-mode createElement call on a non-void tag that returned *)
NonVoidMarkup ==
  /\ ServerElementCall
  /\ toLowerCase(call.tag) \notin STANDARD_VOID_TAGS \cup config.customVoidTags
  /\ out.kind = "string"

(* the rendered children, one after the other *)
Body ==
  mapProcessContent(config, LeavesOfAll(call.children, 1),
                    mergeOptions(config, call.opts).escapeContent)

(* the markup with the attribute entries taken in the order entries *)
MarkupWith(entries) ==
  <<"<">> \o call.tag \o ExpectedAttributes(entries) \o <<">">>
    \o Body \o <<"<", "/">> \o call.tag \o <<">">>

(* C20 as stated: the server-mode markup of a non-void element is
   <tag attrs>body</tag> with the rendered attributes in the insertion order
   of the attribute map, each preceded by one space, and the rendered
   children concatenated with nothing added. *)
C20_InsertionOrder == NonVoidMarkup => out.s = MarkupWith(call.attrs)

(* C20: the server-mode markup of a non-void element is
   <tag attrs>body</tag> with the rendered attributes in the order
   Object.entries enumerates the attribute map (names that are array indices
   first, in ascending numeric order, then the other names in insertion
   order), each preceded by one space, and the rendered children concatenated
   with nothing added. *)
C20_ExactMarkup == NonVoidMarkup => out.s = MarkupWith(ObjectEntries(call.attrs))

(* createElement('div', {class: true, 1: 'x.png'}, undefined, 'a<b', 7)
   returns <div 1="x.png" class>a&lt;b7</div> *)
C20_Witness ==
  /\ NonVoidMarkup
  /\ config.escapeContent = "true"
  /\ call.tag = S_div
  /\ call.attrs = <<[name |-> S_class, value |-> True],
                    [name |-> <<"1">>, value |-> Str(S_xpng)]>>
  /\ call.children = <<Str(S_altb), Num(S_seven)>>
  /\ out.s = <<"<", "d", "i", "v", " ", "1", "=", "\"", "x", ".", "p", "n", "g", "\"",
               " ", "c", "l", "a", "s", "s", ">",
               "a", "&", "l", "t", ";", "b", "7", "<", "/", "d", "i", "v", ">">>

(* the call gives no escape directive: no options, no escapeContent key, or
   an escapeContent key holding undefined *)
NoEscapeDirective == call.opts.escapeContent \in {"absent", "undefined"}

(* C21: in server mode, when the createElement call gives no escape
   directive and the tag is neither void nor a raw-content tag, the string
   children are escaped if and only if the builder's escapeContent setting
   is true. *)
C21_NoDirectiveUsesBuilder ==
  (/\ ServerElementCall
   /\ NoEscapeDirective
   /\ held.from = "none"
   /\ call.attrs = <<>>
   /\ AllStrings(call.children)
   /\ call.tag \notin RawContentTags
   /\ toLowerCase(call.tag) \notin STANDARD_VOID_TAGS \cup config.customVoidTags)
  => out.s = OpenTag(call.tag)
               \o ConcatText(call.children, config.escapeContent = "true")
               \o CloseTag(call.tag)

(* createElement('div', {}, undefined, ...c) for the children of the call *)
DivOfChildren == createElement(config, S_div, <<>>, NoOptions, call.children)

(* C22: in server mode createFragment(...c) never raises and returns the
   body of createElement('div', {}, undefined, ...c): that result is
   <div>, the fragment's string, </div>. *)
C22_FragmentIsElementBody ==
  (call.op = "createFragment" /\ config.isSsr)
  => /\ out.kind = "string"
     /\ DivOfChildren.kind = "string"
     /\ DivOfChildren.s = OpenTag(S_div) \o out.s \o CloseTag(S_div)

(* createFragment('a<b', [7]) on an escaping builder returns a&lt;b7 *)
C22_Witness ==
  /\ call.op = "createFragment"
  /\ config.isSsr
  /\ config.escapeContent = "true"
  /\ call.children = <<Str(S_altb), Arr(<<Num(S_seven)>>)>>
  /\ out.s = <<"a", "&", "l", "t", ";", "b", "7">>

IsNotNullish(v) == ~IsNullish(v)

(* the leaves of the call's children, and those that are not null/undefined *)
CallLeaves == LeavesOfAll(call.children, 1)

DefinedLeaves == SelectSeq(CallLeaves, IsNotNullish)

(* a leaf for which the client appends a node: a host node, or a value that
   is not null/undefined and whose text is not empty *)
AppendsNode(v) == v.t = "node" \/ (~IsNullish(v) /\ v.s # <<>>)

(* C23: null and undefined content never causes a failure and contributes
   nothing.  In either mode createElement and createFragment, called with
   children that hold null or undefined leaves, give the result they give
   for the same children without those leaves, at
   any nesting depth and under every escape setting, and in server mode a
   non-void element whose leaves are all null/undefined has an empty body;
   escapeHtml(null) and escapeHtml(undefined) are ''; in client mode one node
   is appended for each host node and each child with a non-empty text, and
   no text node is empty. *)
C23_NullishContributesNothing ==
  /\ (call.op = "createElement" /\ DefinedLeaves # CallLeaves)
     => /\ out = createElement(config, call.tag, call.attrs, call.opts, DefinedLeaves)
        /\ (/\ config.isSsr
            /\ call.attrs = <<>>
            /\ DefinedLeaves = <<>>
            /\ toLowerCase(call.tag) \notin STANDARD_VOID_TAGS \cup config.customVoidTags)
           => out.s = OpenTag(call.tag) \o CloseTag(call.tag)
  /\ (call.op = "createFragment" /\ DefinedLeaves # CallLeaves)
     => /\ out = createFragment(config, DefinedLeaves)
        /\ ~IsError(out)
  /\ (call.op = "escapeHtml" /\ IsNullish(call.text)) => out = StringResult(<<>>)
  /\ (RenderCall /\ out.kind \in {"element", "fragment"})
     => /\ Len(out.el.childNodes) = Len(SelectSeq(CallLeaves, AppendsNode))
        /\ \A i \in 1..Len(out.el.childNodes) :
             out.el.childNodes[i].t = "text" => out.el.childNodes[i].s # <<>>

(* in client mode createElement('div', {}, undefined, 'a<b', undefined, '')
   appends one text node *)
C23_Witness ==
  /\ call.op = "createElement"
  /\ ~config.isSsr
  /\ call.children = <<Str(S_altb), Undefined, Str(<<>>)>>
  /\ out.kind = "element"
  /\ Len(out.el.childNodes) = 1
  /\ out.el.childNodes[1].t = "text"

(* the call of the current state made on a builder of the given mode with
   the same settings otherwise *)
InMode(isSsr) ==
  createElement([config EXCEPT !.isSsr = isSsr], call.tag, call.attrs,
                call.opts, call.children)

(* C24: for two builders with the same validateAttributes setting, a
   server-mode createElement call raises a validation error if and only if
   the client-mode call with the same tag and attribute map raises one. *)
C24_ModesRejectSameMaps ==
  (call.op = "createElement" /\ held.from = "none")
  => (IsError(InMode(TRUE)) <=> IsError(InMode(FALSE)))

(* C25: with the default configuration and no per-call options, the text
   node a client-mode createElement appends for a string child s of a
   non-void element has s as its data, the text that the server-mode
   rendering escapeHtml(s) decodes to. *)
C25_ClientTextIsDecodedText ==
  (/\ call.op = "createElement"
   /\ ~config.isSsr
   /\ DefaultConfig
   /\ call.opts = NoOptions
   /\ held.from = "none"
   /\ call.attrs = <<>>
   /\ toLowerCase(call.tag) \notin STANDARD_VOID_TAGS \cup config.customVoidTags
   /\ Len(call.children) = 1
   /\ call.children[1].t = "string"
   /\ call.children[1].s # <<>>)
  => /\ out.kind = "element"
     /\ Decode(escapeHtml(call.children[1])) = call.children[1].s
     /\ out.el.childNodes = <<[t |-> "text", s |-> call.children[1].s]>>

(* C26: whatever the caller does to the Set it passed as customVoidTags
   after the construction, a server-mode createElement call renders a tag as
   void (the opening tag alone) exactly when the tag's lower-case form is a
   standard void tag or was in the Set when the builder was constructed. *)
C26_VoidSetFixedAtConstruction ==
  (/\ ServerElementCall
   /\ call.attrs = <<>>
   /\ out.kind = "string")
  => ((out.s = <<"<">> \o call.tag \o <<">">>)
        <=> toLowerCase(call.tag) \in voidTags(Construct(built)))

====
